---------------------------- MODULE Spec2Model ----------------------------
(***************************************************************************)
(* Model of the Manus SDK -> IsaacLab bridge (bridge.cpp / bridge.hpp).    *)
(*                                                                         *)
(* Two threads act on the bridge: the caller's thread (bridge_create,      *)
(* poll, shutdown) and the SDK's callback thread                           *)
(* (Bridge::OnRawSkeletonStreamCallback).  Every source statement that     *)
(* reads or writes shared state (s_Instance, the mutex, m_NextRawSkeleton, *)
(* m_RawSkeleton, the heap of snapshots) is one step of its thread; in the *)
(* callback, whose reads of s_Instance are not synchronised with the       *)
(* caller's writes, the load of s_Instance is a step of its own.           *)
(*                                                                         *)
(* uint32_t arithmetic is exact (32 bits wide, modulo 2^32); see Add32.    *)
(***************************************************************************)
EXTENDS Integers, Sequences, FiniteSets, TLC

\* ------------------------------------------------------------- bounds
MaxInst == 2
MaxLives == 1
MaxSnap == 3
MaxSkel == 2

\* ------------------------------------------------------------- uint32_t
\* The model checker's integers end at 2^31 - 1.  A uint32_t value u is held
\* as the integer with the same 32 bits in two's complement: u itself below
\* 2^31, and u - 2^32 from 2^31 on (4294967294 is held as -2).
MaxInt32 == 2147483647
MinInt32 == (0 - MaxInt32) - 1
\* The uint32_t value 2^32 - k.
Top(k) == 0 - k
\* a < b between uint32_t values.
Below(a, b) == IF (a < 0) = (b < 0) THEN a < b ELSE b < 0
\* a + b in uint32_t (modulo 2^32).
Add32(a, b) ==
  IF a >= 0 /\ b >= 0
  THEN IF a > MaxInt32 - b THEN (a + MinInt32) + (b + MinInt32) ELSE a + b
  ELSE IF a < 0 /\ b < 0
  THEN IF a < MinInt32 - b THEN (a - MinInt32) + (b - MinInt32) ELSE a + b
  ELSE a + b
\* -a and a - b in uint32_t.
Neg32(a) == IF a = MinInt32 THEN MinInt32 ELSE 0 - a
Sub32(a, b) == Add32(a, Neg32(b))

NULL == 0
Insts == 1..MaxInst
Snaps == 1..MaxSnap

\* Return codes of the C interface.
RC_OK == 0
RC_NOT_INIT == -1
RC_NO_DATA == -2
RC_BAD_ARGS == -3
\* Marker for an output (*count, a field of a buffer cell) the callee has
\* not written.
Unwritten == 0 - 9

\* ------------------------------------------------ inputs (small sets)
\* Node counts, glove ids and capacities the environment supplies.  The
\* concurrency specifications use the small sets, the flattening
\* specification the wide ones (which reach the top of the uint32_t range
\* and go beyond what Poll's stack holds).
SmallSkels == {0, 1}
WideSkels == 0..MaxSkel
SmallCounts == {0, 1}
WideCounts == {0, 1, 2, 3, 6, 600000, Top(2)}
SmallGloves == {1}
WideGloves == {1, 2}
SmallCaps == {0, 1}
WideCaps == {0, 1, 2, 3, 4, 7, 600000, 600001}
TightCaps == {0, 1, 2, 3, 4}

\* Line 223: NodeInfo node_info[t_NodeCount] is an array on the stack of
\* the thread that called poll.  The room that stack has left at line 223,
\* counted in NodeInfo elements (20 bytes each), is an input of the call:
\* it is the stack limit of the thread less what the arguments and the
\* environment of the process, the layout of the address space and the
\* frames below the array have taken, and differs from run to run and
\* from build to build.  For a thread with the usual limit of 8 MiB it
\* lies between StackLeast and StackMost: StackMost is the whole stack
\* (8 MiB / 20 bytes), which no array of more elements fits whatever the
\* run; StackLeast is what is left when arguments and environment take
\* the quarter of the limit the system allows them (2 MiB) and the frames
\* below the array some more.  An array of a size between the two fits in
\* some runs and overflows the stack in others.
\* StackUnlimited: a thread whose stack takes any uint32_t count of
\* elements.
StackLeast == 300000
StackMost == 419430
StackUnlimited == Top(1)
VlaFits(t_NodeCount, stack) == ~Below(stack, t_NodeCount)

\* ------------------------------------------------------- SDK data model
\* Node data the SDK hands out for node j of skeleton i of a frame
\* (CoreSdk_GetRawSkeletonData), and the value-initialised node left in
\* place when that fetch fails.
SdkNode(i, j) == [position |-> 100 + 10 * i + j, rotation |-> 200 + 10 * i + j]
ZeroNode == [position |-> 0, rotation |-> 0]
\* Node metadata the SDK returns for node j of glove g
\* (CoreSdk_GetRawSkeletonNodeInfoArray).
SdkNodeInfo(g, j) == [nodeId |-> 50 + j, side |-> g]

\* std::vector<SkeletonNode> nodes: size elements, all filled by the SDK
\* with the data of skeleton `skeleton` of the frame, or all
\* value-initialised.  (The elements are not enumerated: a vector can hold
\* up to 2^32 - 1 of them.)
NoNodes == [size |-> 0, skeleton |-> 0, filled |-> FALSE]
Nodes(i, cnt, dataOk) ==
  IF cnt = 0 THEN NoNodes ELSE [size |-> cnt, skeleton |-> i, filled |-> dataOk]
\* nodes[j], j counted from 0.
NodeAt(nodes, j) == IF nodes.filled THEN SdkNode(nodes.skeleton, j) ELSE ZeroNode

\* A value-initialised ClientRawSkeleton (skeletons.resize).
EmptySkeleton == [gloveId |-> 0, nodesCount |-> 0, nodes |-> NoNodes]

VARIABLES
  s_Instance,          \* Bridge::s_Instance: NULL or an instance id
  alive,               \* instances constructed and not yet destructed
  nInst,               \* instances constructed so far
  m_NextRawSkeleton,   \* per instance: pending snapshot id or NULL
  m_RawSkeleton,       \* per instance: retained snapshot id or NULL
  mutex,               \* per instance: "free", "poll" or "cb"
  registered,          \* the SDK holds the raw-skeleton callback
  nSnap,               \* snapshots allocated so far
  snap,                \* heap: snapshot id -> sequence of skeletons
  freed,               \* heap: snapshot id -> number of deletes (capped at 2)
  con_pc,              \* caller thread: position
  this,                \* caller thread: instance of the running call
  poll,                \* caller thread: arguments and locals of poll/Poll
  ret,                 \* caller thread: last call returned
  calls,               \* caller thread: SDK/platform calls of the running call
  cb_pc,               \* callback thread: position
  cb,                  \* callback thread: locals (inst: s_Instance as loaded)
  freshPub,            \* history: per instance, a store since the last take
  pubLast,             \* history: per instance, the snapshot last stored
  claim,               \* history: what the current/last Poll took
  delivered,           \* history: snapshot id -> number of Polls that took it
  ub                   \* undefined behaviour observed so far

shared == <<s_Instance, alive, nInst, m_NextRawSkeleton, m_RawSkeleton, mutex>>
heap == <<nSnap, snap, freed>>
caller == <<con_pc, this, poll, ret, calls>>
producer == <<cb_pc, cb>>
history == <<freshPub, pubLast, claim, delivered>>
vars == <<shared, heap, caller, producer, history, registered, ub>>

NoPoll == [bufNull |-> FALSE, cntNull |-> FALSE, buffer_size |-> 0,
           buffer |-> << >>, buffer_index |-> 0, i |-> 0, count |-> 0,
           lookups |-> << >>, oob |-> FALSE, stack |-> StackLeast]
NoClaim == [inst |-> NULL, id |-> NULL, fresh |-> FALSE, latest |-> NULL]
NoRet == [op |-> "none", status |-> 0, count |-> Unwritten]
NoCb == [t |-> NULL, i |-> 0, skeletonsCount |-> 0, inst |-> NULL]

\* A null dereference, a stack overflow, a write that faults and a read of
\* a deleted snapshot that faults end the process: nothing runs after
\* them.  (A write outside the caller's buffer that does not fault is
\* recorded as "buffer_overrun"; the process goes on.)
Fatal == {"null_deref", "stack_overflow", "overrun_fault", "read_freed_fault"}
Running == ub \cap Fatal = {}

Init ==
  /\ s_Instance = NULL
  /\ alive = {}
  /\ nInst = 0
  /\ m_NextRawSkeleton = [b \in Insts |-> NULL]
  /\ m_RawSkeleton = [b \in Insts |-> NULL]
  /\ mutex = [b \in Insts |-> "free"]
  /\ registered = FALSE
  /\ nSnap = 0
  /\ snap = [s \in Snaps |-> << >>]
  /\ freed = [s \in Snaps |-> 0]
  /\ con_pc = "idle"
  /\ this = NULL
  /\ poll = NoPoll
  /\ ret = NoRet
  /\ calls = << >>
  /\ cb_pc = "idle"
  /\ cb = NoCb
  /\ freshPub = [b \in Insts |-> FALSE]
  /\ pubLast = [b \in Insts |-> NULL]
  /\ claim = NoClaim
  /\ delivered = [s \in Snaps |-> 0]
  /\ ub = {}

\* p points to a snapshot that has been deleted: reading through it is a
\* use after free.
ReadsFreed(p) == p # NULL /\ freed[p] > 0
\* delete p: one more delete of snapshot p (nothing for a null pointer).
DeleteMutant(f, p) == f
Delete(f, p) == IF p = NULL THEN f ELSE [f EXCEPT ![p] = IF @ < 2 THEN @ + 1 ELSE @]

\* ===================================================== callback thread
\* One iteration of the assembly loop (lines 326-335): the skeleton at
\* index i after CoreSdk_GetRawSkeletonInfo (its result is not checked: on
\* failure the value-initialised info stays), nodes.resize(nodesCount) and
\* CoreSdk_GetRawSkeletonData (not checked either: on failure the
\* value-initialised nodes stay).
AssembleSkeleton(i, infoOk, dataOk, g, n) ==
  LET cnt == IF infoOk THEN n ELSE 0
  IN [gloveId |-> IF infoOk THEN g ELSE 0,
      nodesCount |-> cnt,
      nodes |-> Nodes(i, cnt, dataOk)]

\* std::mutex::lock() returns once the mutex is free.
CbMayLockMutant(b) == TRUE
CbMayLock(b) == mutex[b] = "free"

PollMayLockMutant(b) == TRUE
PollMayLock(b) == mutex[b] = "free"

\* Dereferencing s_Instance while it is null.
CbNullDeref ==
  /\ s_Instance = NULL
  /\ ub' = ub \cup {"null_deref"}
  /\ cb_pc' = "crashed"
  /\ UNCHANGED <<shared, heap, caller, cb, history, registered>>

\* Lines 315-321: the callback fires; without an instance it does nothing,
\* else it allocates a snapshot and sizes it to skeletonsCount.
CbEnter(skels) ==
  /\ Running /\ cb_pc = "idle" /\ registered /\ nSnap < MaxSnap
  /\ \E k \in skels :
       IF s_Instance = NULL
       THEN UNCHANGED vars
       ELSE /\ nSnap' = nSnap + 1
            /\ snap' = [snap EXCEPT ![nSnap + 1] = [x \in 1..k |-> EmptySkeleton]]
            /\ cb' = [t |-> nSnap + 1, i |-> 0, skeletonsCount |-> k, inst |-> NULL]
            /\ cb_pc' = "assemble"
            /\ UNCHANGED <<shared, freed, caller, history, registered, ub>>

\* Lines 323-336: one loop iteration.
CbAssemble(counts, gloves, infoOks, dataOks) ==
  /\ Running /\ cb_pc = "assemble" /\ cb.i < cb.skeletonsCount
  /\ \E infoOk \in infoOks, dataOk \in dataOks, g \in gloves, n \in counts :
       snap' = [snap EXCEPT ![cb.t][cb.i + 1] =
                  AssembleSkeleton(cb.i, infoOk, dataOk, g, n)]
  /\ cb' = [cb EXCEPT !.i = @ + 1]
  /\ UNCHANGED <<shared, nSnap, freed, caller, cb_pc, history, registered, ub>>

\* -------------------------------------------------------- lines 337-341
\* Each of lines 337-341 first loads s_Instance and then acts on the
\* instance loaded.  The loads are not synchronised with the caller's
\* thread, which writes s_Instance in the constructor (line 53) and the
\* destructor (line 55), so those writes can fall between a load and the
\* access that uses it.  CbLoad is the load; CbLock .. CbUnlock act on the
\* loaded pointer cb.inst.  Acting on an instance that has been destroyed
\* is a use after free, recorded in ub (the access itself goes through; a
\* lock() that never returns is the behaviour in which no further step of
\* the callback is taken).
CbSectionAt == {"assemble", "check", "delete", "store", "unlock"}

UseOf(b, tag) == IF b \in alive THEN ub ELSE ub \cup {tag}

\* The loop of lines 323-336 has ended (i == skeletonsCount).
AssembledAllMutant == TRUE
AssembledAll == cb.i = cb.skeletonsCount

\* The load of s_Instance in one of lines 337-341.
CbLoad ==
  /\ Running /\ cb_pc \in CbSectionAt /\ AssembledAll
  /\ cb.inst = NULL
  /\ \/ CbNullDeref
     \/ /\ s_Instance # NULL
        /\ cb' = [cb EXCEPT !.inst = s_Instance]
        /\ UNCHANGED <<shared, heap, caller, cb_pc, history, registered, ub>>

\* Plain (non-atomic) loads of s_Instance with no call in between may be
\* merged by the compiler: after lines 338 and 340 the pointer loaded is
\* either kept for the next line or loaded anew.  After the calls of lines
\* 337 (lock) and 339 (operator delete) it is loaded anew.
KeptOrReloaded(p) == {p, NULL}

\* Line 337: lock() on the loaded instance's mutex.
CbLock ==
  /\ Running /\ cb_pc = "assemble" /\ cb.inst # NULL
  /\ CbMayLock(cb.inst)
  /\ mutex' = [mutex EXCEPT ![cb.inst] = "cb"]
  /\ ub' = UseOf(cb.inst, "lock_destroyed")
  /\ cb_pc' = "check"
  /\ cb' = [cb EXCEPT !.inst = NULL]
  /\ UNCHANGED <<s_Instance, alive, nInst, m_NextRawSkeleton, m_RawSkeleton,
                 heap, caller, history, registered>>

\* Line 338: if (s_Instance->m_NextRawSkeleton != nullptr), on the loaded
\* instance.
CbCheck ==
  /\ Running /\ cb_pc = "check" /\ cb.inst # NULL
  /\ cb_pc' = IF m_NextRawSkeleton[cb.inst] # NULL THEN "delete" ELSE "store"
  /\ ub' = UseOf(cb.inst, "read_destroyed")
  /\ \E p \in KeptOrReloaded(cb.inst) : cb' = [cb EXCEPT !.inst = p]
  /\ UNCHANGED <<shared, heap, caller, history, registered>>

\* Line 339: delete s_Instance->m_NextRawSkeleton, on the loaded instance.
CbDelete ==
  /\ Running /\ cb_pc = "delete" /\ cb.inst # NULL
  /\ freed' = Delete(freed, m_NextRawSkeleton[cb.inst])
  /\ ub' = UseOf(cb.inst, "read_destroyed")
  /\ cb_pc' = "store"
  /\ cb' = [cb EXCEPT !.inst = NULL]
  /\ UNCHANGED <<shared, nSnap, snap, caller, history, registered>>

\* Line 340: s_Instance->m_NextRawSkeleton = t_NxtClientRawSkeleton, on the
\* loaded instance.
CbStore ==
  /\ Running /\ cb_pc = "store" /\ cb.inst # NULL
  /\ m_NextRawSkeleton' = [m_NextRawSkeleton EXCEPT ![cb.inst] = cb.t]
  /\ freshPub' = [freshPub EXCEPT ![cb.inst] = TRUE]
  /\ pubLast' = [pubLast EXCEPT ![cb.inst] = cb.t]
  /\ ub' = UseOf(cb.inst, "store_destroyed")
  /\ cb_pc' = "unlock"
  /\ \E p \in KeptOrReloaded(cb.inst) : cb' = [cb EXCEPT !.inst = p]
  /\ UNCHANGED <<s_Instance, alive, nInst, m_RawSkeleton, mutex, heap, caller,
                 claim, delivered, registered>>

\* Line 341: unlock() of the loaded instance's mutex; the callback returns.
\* Unlocking a mutex the thread does not hold is undefined behaviour.
CbUnlock ==
  /\ Running /\ cb_pc = "unlock" /\ cb.inst # NULL
  /\ mutex' = [mutex EXCEPT ![cb.inst] = "free"]
  /\ ub' = (IF mutex[cb.inst] = "cb" THEN ub ELSE ub \cup {"unlock_not_owner"})
             \cup UseOf(cb.inst, "lock_destroyed")
  /\ cb_pc' = "idle"
  /\ cb' = NoCb
  /\ UNCHANGED <<s_Instance, alive, nInst, m_NextRawSkeleton, m_RawSkeleton,
                 heap, caller, history, registered>>

\* ======================================================= caller thread
\* Line 29: !buffer || !count.
ArgsInvalidMutant(bufNull, cntNull) == bufNull /\ cntNull
ArgsInvalid(bufNull, cntNull) == bufNull \/ cntNull

\* Line 37: (actual_count == 0) ? -2 : 0.
PollStatusMutant(actual_count) == RC_OK
PollStatusInverted(actual_count) == IF actual_count = 0 THEN RC_OK ELSE RC_NO_DATA
PollStatus(actual_count) == IF actual_count = 0 THEN RC_NO_DATA ELSE RC_OK

\* Line 217: buffer_index + t_NodeCount > buffer_size, in uint32_t.
Overflows(buffer_index, t_NodeCount, buffer_size) ==
  Below(buffer_size, Add32(buffer_index, t_NodeCount))

\* Lines 232-237: the record written for node j of skeleton sk.
NodePose(sk, j) ==
  [glove_id |-> sk.gloveId,
   node_id |-> SdkNodeInfo(sk.gloveId, j).nodeId,
   side |-> SdkNodeInfo(sk.gloveId, j).side,
   position |-> NodeAt(sk.nodes, j).position,
   orientation |-> NodeAt(sk.nodes, j).rotation]

\* Lines 230-238: the inner loop from node j on, to its end.  st holds the
\* caller's buffer (cell index -> record written; a cell not written is
\* not in it), buffer_index and oob.  A write at an index >= buffer_size
\* goes outside the caller's buffer: oob is set.  When `faults` (the memory
\* there is not writable) the loop ends at that write.  Otherwise it goes
\* on; the writes outside the buffer, which leave the buffer as it is, are
\* taken in one stride: up to the end of the loop, or up to the write after
\* which buffer_index++ wraps to 0.
RECURSIVE WriteNodes(_, _, _, _, _)
WriteNodes(st, sk, j, buffer_size, faults) ==
  IF ~Below(j, sk.nodesCount) THEN st
  ELSE LET k == st.buffer_index
       IN IF Below(k, buffer_size)
          THEN WriteNodes([buffer |-> (k :> NodePose(sk, j)) @@ st.buffer,
                           buffer_index |-> Add32(k, 1),
                           oob |-> st.oob],
                          sk, Add32(j, 1), buffer_size, faults)
          ELSE IF faults
          THEN [st EXCEPT !.oob = TRUE]
          ELSE LET left == Sub32(sk.nodesCount, j)
                   toWrap == Neg32(k)
               IN IF k = 0 \/ ~Below(toWrap, left)
                  THEN [st EXCEPT !.buffer_index = Add32(k, left), !.oob = TRUE]
                  ELSE WriteNodes([st EXCEPT !.buffer_index = 0, !.oob = TRUE],
                                  sk, Add32(j, toWrap), buffer_size, faults)

\* Lines 225-228: the lookup failed: log and continue with the next
\* skeleton; nothing is written and buffer_index stays.
SkipSkeleton(p, sk) == [p EXCEPT !.i = @ + 1, !.lookups = Append(@, FALSE)]

\* Lines 198-199: what the swap leaves in m_RawSkeleton and m_NextRawSkeleton.
TakenMutant(raw, nxt) == IF nxt = NULL THEN raw ELSE nxt
Taken(raw, nxt) == nxt
ClearedMutant(nxt) == nxt
Cleared(nxt) == NULL

\* poll(buffer, buffer_size, count) is called, on a thread with room for
\* `stack` NodeInfo elements on its stack.
PollCall(caps, flags, stacks) ==
  /\ Running /\ con_pc = "idle"
  /\ \E bufNull \in flags, cntNull \in flags, size \in caps, stack \in stacks :
       poll' = [NoPoll EXCEPT !.bufNull = bufNull, !.cntNull = cntNull,
                              !.buffer_size = size, !.stack = stack]
  /\ con_pc' = "p_entry"
  /\ claim' = NoClaim
  /\ UNCHANGED <<shared, heap, this, ret, calls, producer, freshPub, pubLast,
                 delivered, registered, ub>>

\* Lines 26-33: the checks of poll, then the call of Poll.
PollEntry ==
  /\ Running /\ con_pc = "p_entry"
  /\ IF s_Instance = NULL
     THEN /\ ret' = [op |-> "poll", status |-> RC_NOT_INIT, count |-> Unwritten]
          /\ con_pc' = "idle"
          /\ UNCHANGED this
     ELSE IF ArgsInvalid(poll.bufNull, poll.cntNull)
     THEN /\ ret' = [op |-> "poll", status |-> RC_BAD_ARGS, count |-> Unwritten]
          /\ con_pc' = "idle"
          /\ UNCHANGED this
     ELSE /\ this' = s_Instance
          /\ con_pc' = "p_lock"
          /\ UNCHANGED ret
  /\ UNCHANGED <<shared, heap, poll, calls, producer, history, registered, ub>>

\* Line 194: m_RawSkeletonMutex.lock().
PollLock ==
  /\ Running /\ con_pc = "p_lock"
  /\ PollMayLock(this)
  /\ mutex' = [mutex EXCEPT ![this] = "poll"]
  /\ con_pc' = "p_delete"
  /\ UNCHANGED <<s_Instance, alive, nInst, m_NextRawSkeleton, m_RawSkeleton, heap,
                 this, poll, ret, calls, producer, history, registered, ub>>

\* Line 197: delete m_RawSkeleton.
PollDelete ==
  /\ Running /\ con_pc = "p_delete"
  /\ freed' = Delete(freed, m_RawSkeleton[this])
  /\ con_pc' = "p_take"
  /\ UNCHANGED <<shared, nSnap, snap, this, poll, ret, calls, producer, history,
                 registered, ub>>

\* Line 198: m_RawSkeleton = m_NextRawSkeleton.
PollTake ==
  /\ Running /\ con_pc = "p_take"
  /\ LET got == Taken(m_RawSkeleton[this], m_NextRawSkeleton[this])
     IN /\ m_RawSkeleton' = [m_RawSkeleton EXCEPT ![this] = got]
        /\ claim' = [inst |-> this, id |-> got, fresh |-> freshPub[this],
                     latest |-> pubLast[this]]
        /\ delivered' = IF got = NULL THEN delivered
                        ELSE [delivered EXCEPT ![got] = IF @ < 2 THEN @ + 1 ELSE @]
  /\ freshPub' = [freshPub EXCEPT ![this] = FALSE]
  /\ con_pc' = "p_clear"
  /\ UNCHANGED <<s_Instance, alive, nInst, m_NextRawSkeleton, mutex, heap, this,
                 poll, ret, calls, producer, pubLast, registered, ub>>

\* Lines 199-201: m_NextRawSkeleton = nullptr; count = 0.
PollClear ==
  /\ Running /\ con_pc = "p_clear"
  /\ m_NextRawSkeleton' =
       [m_NextRawSkeleton EXCEPT ![this] = Cleared(m_NextRawSkeleton[this])]
  /\ poll' = [poll EXCEPT !.count = 0]
  /\ con_pc' = "p_check"
  /\ UNCHANGED <<s_Instance, alive, nInst, m_RawSkeleton, mutex, heap, this, ret,
                 calls, producer, history, registered, ub>>

\* Lines 204-210: no snapshot or no skeleton: unlock and return; else set
\* up the loop.  When the snapshot has been deleted (by a callback that
\* ran its publish section on this instance without holding its mutex) the
\* read of line 204 is a use after free: it faults, or it finds the
\* memory as the snapshot left it.
PollCheck ==
  /\ Running /\ con_pc = "p_check"
  /\ \/ /\ ReadsFreed(m_RawSkeleton[this])
        /\ con_pc' = "crashed"
        /\ ub' = ub \cup {"read_freed_fault"}
        /\ UNCHANGED mutex
     \/ /\ IF m_RawSkeleton[this] = NULL \/ Len(snap[m_RawSkeleton[this]]) = 0
           THEN /\ mutex' = [mutex EXCEPT ![this] = "free"]
                /\ con_pc' = "p_ret"
           ELSE /\ con_pc' = "p_loop"
                /\ UNCHANGED mutex
        /\ UNCHANGED ub
  /\ UNCHANGED <<s_Instance, alive, nInst, m_NextRawSkeleton, m_RawSkeleton, heap,
                 this, poll, ret, calls, producer, history, registered>>

\* Lines 212-239: one iteration of the skeleton loop: the reads of the
\* snapshot (lines 213-214; a use after free when the snapshot has been
\* deleted: they fault, or find the memory as the snapshot left it), the
\* capacity check (break), the node_info array of line 223 (a stack
\* overflow when the thread's stack does not hold it), the metadata
\* lookup (continue on failure), the inner loop.  A write outside the
\* caller's buffer either faults (the process ends at the first such write
\* or at a later one: the caller's buffer is the same) or, the memory
\* behind the buffer being writable, does not: the loop runs to its end
\* and Poll goes on.
PollLoop ==
  /\ Running /\ con_pc = "p_loop"
  /\ poll.i < Len(snap[m_RawSkeleton[this]])
  /\ \/ /\ ReadsFreed(m_RawSkeleton[this])
        /\ con_pc' = "crashed"
        /\ ub' = ub \cup {"read_freed_fault"}
        /\ UNCHANGED poll
     \/ LET sk == snap[m_RawSkeleton[this]][poll.i + 1]
        IN IF Overflows(poll.buffer_index, sk.nodesCount, poll.buffer_size)
           THEN /\ con_pc' = "p_finish"
                /\ UNCHANGED <<poll, ub>>
           ELSE IF ~VlaFits(sk.nodesCount, poll.stack)
           THEN /\ con_pc' = "crashed"
                /\ ub' = ub \cup {"stack_overflow"}
                /\ UNCHANGED poll
           ELSE \E ok \in BOOLEAN, faults \in BOOLEAN :
                  IF ok
                  THEN LET st == WriteNodes([buffer |-> poll.buffer,
                                             buffer_index |-> poll.buffer_index,
                                             oob |-> FALSE],
                                            sk, 0, poll.buffer_size, faults)
                           died == st.oob /\ faults
                       IN /\ poll' = [poll EXCEPT !.buffer = st.buffer,
                                                  !.buffer_index = st.buffer_index,
                                                  !.oob = @ \/ st.oob,
                                                  !.i = IF died THEN @ ELSE @ + 1,
                                                  !.lookups = Append(@, TRUE)]
                          /\ con_pc' = IF died THEN "crashed" ELSE con_pc
                          /\ ub' = ub \cup (IF st.oob THEN {"buffer_overrun"} ELSE {})
                                      \cup (IF died THEN {"overrun_fault"} ELSE {})
                  ELSE /\ poll' = SkipSkeleton(poll, sk)
                       /\ UNCHANGED <<con_pc, ub>>
  /\ UNCHANGED <<shared, heap, this, ret, calls, producer, history, registered>>

\* Lines 241-243: count = buffer_index; unlock.
PollFinish ==
  /\ Running
  /\ \/ con_pc = "p_finish"
     \/ con_pc = "p_loop" /\ poll.i >= Len(snap[m_RawSkeleton[this]])
  /\ poll' = [poll EXCEPT !.count = poll.buffer_index]
  /\ mutex' = [mutex EXCEPT ![this] = "free"]
  /\ con_pc' = "p_ret"
  /\ UNCHANGED <<s_Instance, alive, nInst, m_NextRawSkeleton, m_RawSkeleton, heap,
                 this, ret, calls, producer, history, registered, ub>>

\* Lines 34-37: *count = actual_count; return the status.
PollReturn ==
  /\ Running /\ con_pc = "p_ret"
  /\ ret' = [op |-> "poll", status |-> PollStatus(poll.count), count |-> poll.count]
  /\ con_pc' = "idle"
  /\ UNCHANGED <<shared, heap, this, poll, calls, producer, history, registered, ub>>

\* --------------------------------------------------------- bridge_create
\* The caller's usage contract (one instance at a time): bridge_create is
\* called only while no instance exists.
\* Lines 16 and 53: new Bridge(); the constructor sets s_Instance.
CreateNew ==
  /\ Running /\ con_pc = "idle"
  /\ s_Instance = NULL
  /\ nInst < MaxInst
  /\ nInst' = nInst + 1
  /\ alive' = alive \cup {nInst + 1}
  /\ s_Instance' = nInst + 1
  /\ m_NextRawSkeleton' = [m_NextRawSkeleton EXCEPT ![nInst + 1] = NULL]
  /\ m_RawSkeleton' = [m_RawSkeleton EXCEPT ![nInst + 1] = NULL]
  /\ mutex' = [mutex EXCEPT ![nInst + 1] = "free"]
  /\ this' = nInst + 1
  /\ calls' = << >>
  /\ con_pc' = "c_platform"
  /\ UNCHANGED <<heap, poll, ret, producer, history, registered, ub>>

\* One initialisation step of Initialize/InitializeSDK: an SDK or platform
\* call that succeeds or fails; failure leads to the delete of line 19.
InitStep(at, name, next) ==
  /\ Running /\ con_pc = at
  /\ \E ok \in BOOLEAN :
       /\ calls' = Append(calls, <<name, ok>>)
       /\ con_pc' = IF ok THEN next ELSE "c_delete"
       /\ registered' = IF name = "RegisterCallback" /\ ok THEN TRUE ELSE registered
  /\ UNCHANGED <<shared, heap, this, poll, ret, producer, history, ub>>

\* Line 61: PlatformSpecificInitialization().
CreatePlatform == InitStep("c_platform", "PlatformInit", "c_core")
\* Line 108: CoreSdk_InitializeCore().
CreateCore == InitStep("c_core", "InitializeCore", "c_register")
\* Lines 114, 170-180: CoreSdk_RegisterCallbackForRawSkeletonStream.
CreateRegister == InitStep("c_register", "RegisterCallback", "c_coord")
\* Line 134: CoreSdk_InitializeCoordinateSystemWithVUH.
CreateCoord == InitStep("c_coord", "CoordinateSystem", "c_connect")

\* Lines 77-82: one attempt of the connect loop; a failed attempt is
\* followed by another (repeated failures are logged once).
CreateConnect ==
  /\ Running /\ con_pc = "c_connect"
  /\ \E ok \in BOOLEAN :
       /\ calls' = IF ~ok /\ calls[Len(calls)] = <<"Connect", FALSE>>
                   THEN calls ELSE Append(calls, <<"Connect", ok>>)
       /\ con_pc' = IF ok THEN "c_motion" ELSE "c_connect"
  /\ UNCHANGED <<shared, heap, this, poll, ret, producer, history, registered, ub>>

CreateHandMotionMutant ==
  /\ Running /\ con_pc = "c_motion"
  /\ \E ok \in BOOLEAN :
       /\ calls' = Append(calls, <<"HandMotion", ok>>)
       /\ con_pc' = IF ok THEN "c_return" ELSE "c_delete"
  /\ UNCHANGED <<shared, heap, this, poll, ret, producer, history, registered, ub>>
\* Lines 91-98: CoreSdk_SetRawSkeletonHandMotion; a failure is only logged.
CreateHandMotion ==
  /\ Running /\ con_pc = "c_motion"
  /\ \E ok \in BOOLEAN : calls' = Append(calls, <<"HandMotion", ok>>)
  /\ con_pc' = "c_return"
  /\ UNCHANGED <<shared, heap, this, poll, ret, producer, history, registered, ub>>

\* Line 22: return instance.
CreateReturn ==
  /\ Running /\ con_pc = "c_return"
  /\ ret' = [op |-> "create", status |-> this, count |-> Unwritten]
  /\ con_pc' = "idle"
  /\ UNCHANGED <<shared, heap, this, poll, calls, producer, history, registered, ub>>

\* Lines 19-20 and 55: delete instance (the destructor clears s_Instance
\* and nothing else); return nullptr.  Destroying a mutex that is locked is
\* undefined behaviour.
CreateDelete ==
  /\ Running /\ con_pc = "c_delete"
  /\ s_Instance' = NULL
  /\ alive' = alive \ {this}
  /\ ub' = IF mutex[this] # "free" THEN ub \cup {"destroy_locked_mutex"} ELSE ub
  /\ ret' = [op |-> "create", status |-> NULL, count |-> Unwritten]
  /\ con_pc' = "idle"
  /\ UNCHANGED <<nInst, m_NextRawSkeleton, m_RawSkeleton, mutex, heap, this, poll,
                 calls, producer, history, registered>>

\* bridge_create called while an instance exists (nothing in the code
\* prevents it): lines 16 and 53, the constructor overwrites s_Instance.
CreateAgain ==
  /\ Running /\ con_pc = "idle"
  /\ s_Instance # NULL
  /\ nInst < MaxInst
  /\ nInst' = nInst + 1
  /\ alive' = alive \cup {nInst + 1}
  /\ s_Instance' = nInst + 1
  /\ m_NextRawSkeleton' = [m_NextRawSkeleton EXCEPT ![nInst + 1] = NULL]
  /\ m_RawSkeleton' = [m_RawSkeleton EXCEPT ![nInst + 1] = NULL]
  /\ mutex' = [mutex EXCEPT ![nInst + 1] = "free"]
  /\ this' = nInst + 1
  /\ calls' = << >>
  /\ con_pc' = "c_platform"
  /\ UNCHANGED <<heap, poll, ret, producer, history, registered, ub>>

\* -------------------------------------------------------------- shutdown
\* Lines 40-44: shutdown(): no instance, or Bridge::ShutDown.
ShutdownCall ==
  /\ Running /\ con_pc = "idle"
  /\ calls' = << >>
  /\ IF s_Instance = NULL
     THEN /\ ret' = [op |-> "shutdown", status |-> RC_NOT_INIT, count |-> Unwritten]
          /\ UNCHANGED <<con_pc, this>>
     ELSE /\ this' = s_Instance
          /\ con_pc' = "s_sdk"
          /\ UNCHANGED ret
  /\ UNCHANGED <<shared, heap, poll, producer, history, registered, ub>>

ShutdownSdkMutant ==
  /\ Running /\ con_pc = "s_sdk"
  /\ \E ok \in BOOLEAN : calls' = Append(calls, <<"CoreShutDown", ok>>)
  /\ con_pc' = "s_platform"
  /\ UNCHANGED <<shared, heap, this, poll, ret, producer, history, registered, ub>>
\* Lines 149-152: CoreSdk_ShutDown().
ShutdownSdk ==
  /\ Running /\ con_pc = "s_sdk"
  /\ \E ok \in BOOLEAN :
       /\ calls' = Append(calls, <<"CoreShutDown", ok>>)
       /\ IF ok
          THEN con_pc' = "s_platform" /\ UNCHANGED ret
          ELSE /\ con_pc' = "idle"
               /\ ret' = [op |-> "shutdown", status |-> RC_NOT_INIT, count |-> Unwritten]
  /\ UNCHANGED <<shared, heap, this, poll, producer, history, registered, ub>>

\* Lines 154-158 and 45: PlatformSpecificShutdown(); the status returned.
ShutdownPlatform ==
  /\ Running /\ con_pc = "s_platform"
  /\ \E ok \in BOOLEAN :
       /\ calls' = Append(calls, <<"PlatformShutdown", ok>>)
       /\ ret' = [op |-> "shutdown", status |-> IF ok THEN RC_OK ELSE RC_NOT_INIT,
                  count |-> Unwritten]
  /\ con_pc' = "idle"
  /\ UNCHANGED <<shared, heap, this, poll, producer, history, registered, ub>>

\* ======================================================== specifications
Callback(skels, counts, gloves, infoOks, dataOks) ==
  \/ CbEnter(skels)
  \/ CbAssemble(counts, gloves, infoOks, dataOks)
  \/ CbLoad
  \/ CbLock
  \/ CbCheck
  \/ CbDelete
  \/ CbStore
  \/ CbUnlock

PollSteps ==
  \/ PollEntry
  \/ PollLock
  \/ PollDelete
  \/ PollTake
  \/ PollClear
  \/ PollCheck
  \/ PollLoop
  \/ PollFinish
  \/ PollReturn

\* bridge_create, called while fewer than n instances have been created.
CreateWithin(n) ==
  \/ nInst < n /\ CreateNew
  \/ CreatePlatform
  \/ CreateCore
  \/ CreateRegister
  \/ CreateCoord
  \/ CreateConnect
  \/ CreateHandMotion
  \/ CreateReturn
  \/ CreateDelete

Create == CreateWithin(MaxInst)

Shutdown ==
  \/ ShutdownCall
  \/ ShutdownSdk
  \/ ShutdownPlatform

\* The state in which a successful bridge_create leaves the process.
InitCreated ==
  /\ s_Instance = 1
  /\ alive = {1}
  /\ nInst = 1
  /\ m_NextRawSkeleton = [b \in Insts |-> NULL]
  /\ m_RawSkeleton = [b \in Insts |-> NULL]
  /\ mutex = [b \in Insts |-> "free"]
  /\ registered = TRUE
  /\ nSnap = 0
  /\ snap = [s \in Snaps |-> << >>]
  /\ freed = [s \in Snaps |-> 0]
  /\ con_pc = "idle"
  /\ this = 1
  /\ poll = NoPoll
  /\ ret = [op |-> "create", status |-> 1, count |-> Unwritten]
  /\ calls = << >>
  /\ cb_pc = "idle"
  /\ cb = NoCb
  /\ freshPub = [b \in Insts |-> FALSE]
  /\ pubLast = [b \in Insts |-> NULL]
  /\ claim = NoClaim
  /\ delivered = [s \in Snaps |-> 0]
  /\ ub = {}

\* One created bridge: the caller polls while the SDK thread delivers
\* (small) frames.
Next ==
  \/ PollCall(SmallCaps, BOOLEAN, {StackLeast})
  \/ PollSteps
  \/ Callback(SmallSkels, SmallCounts, SmallGloves, BOOLEAN, BOOLEAN)

Spec == InitCreated /\ [][Next]_vars

\* The life of the bridge from process start: bridge_create (succeeding or
\* failing, MaxLives times at most), shutdown, polls and callbacks, every
\* frame being one skeleton of one node.
NextLife ==
  \/ CreateWithin(MaxLives)
  \/ Shutdown
  \/ PollCall({1}, {FALSE}, {StackLeast})
  \/ PollSteps
  \/ Callback({1}, {1}, SmallGloves, {TRUE}, {TRUE})

SpecLife == Init /\ [][NextLife]_vars

\* The frames a callback can assemble: k skeletons, the one at index i
\* being a result of AssembleSkeleton(i, ...).
SkeletonsAt(i, counts, gloves, infoOks, dataOks) ==
  {AssembleSkeleton(i, infoOk, dataOk, g, n) :
     infoOk \in infoOks, dataOk \in dataOks, g \in gloves, n \in counts}

Frames(skels, counts, gloves, infoOks, dataOks) ==
  UNION {
    {f \in [1..k -> UNION {SkeletonsAt(i, counts, gloves, infoOks, dataOks) :
                             i \in 0..(k - 1)}] :
       \A x \in 1..k : f[x] \in SkeletonsAt(x - 1, counts, gloves, infoOks, dataOks)}
    : k \in skels}

\* Flattening: a created bridge whose slot holds one published frame, any
\* frame a callback can assemble from the wide input sets (a host with the
\* memory for it); the caller polls it with any capacity, from a thread
\* with an 8 MiB stack (with the least or the most room such a stack
\* leaves) or, with the small capacities, from a thread whose stack takes
\* any array.
InitFlat ==
  /\ s_Instance = 1
  /\ alive = {1}
  /\ nInst = 1
  /\ m_NextRawSkeleton = [b \in Insts |-> IF b = 1 THEN 1 ELSE NULL]
  /\ m_RawSkeleton = [b \in Insts |-> NULL]
  /\ mutex = [b \in Insts |-> "free"]
  /\ registered = TRUE
  /\ nSnap = 1
  /\ \E f \in Frames(WideSkels, WideCounts, WideGloves, BOOLEAN, {TRUE}) :
       snap = [s \in Snaps |-> IF s = 1 THEN f ELSE << >>]
  /\ freed = [s \in Snaps |-> 0]
  /\ con_pc = "idle"
  /\ this = 1
  /\ poll = NoPoll
  /\ ret = [op |-> "create", status |-> 1, count |-> Unwritten]
  /\ calls = << >>
  /\ cb_pc = "idle"
  /\ cb = NoCb
  /\ freshPub = [b \in Insts |-> b = 1]
  /\ pubLast = [b \in Insts |-> IF b = 1 THEN 1 ELSE NULL]
  /\ claim = NoClaim
  /\ delivered = [s \in Snaps |-> 0]
  /\ ub = {}

NextFlat ==
  \/ PollCall(WideCaps, {FALSE}, {StackLeast, StackMost})
  \/ PollCall(TightCaps, {FALSE}, {StackUnlimited})
  \/ PollSteps

SpecFlat == InitFlat /\ [][NextFlat]_vars

\* bridge_create at any time, also while an earlier instance is alive,
\* with polls and callbacks (frames of one skeleton without nodes).
NextAgain ==
  \/ Create
  \/ CreateAgain
  \/ PollCall({0}, BOOLEAN, {StackLeast})
  \/ PollSteps
  \/ Callback({1}, {0}, SmallGloves, {TRUE}, {TRUE})

SpecAgain == Init /\ [][NextAgain]_vars

\* One created bridge under fair scheduling of the two threads: a thread
\* that can take its next step, and stays able to, eventually takes it.
\* Nothing is assumed of lock() beyond that: std::mutex does not say
\* which waiter gets a mutex that is released again and again.  Frames
\* have at most one skeleton, without nodes.
NextFair ==
  \/ PollCall({0}, {FALSE}, {StackLeast})
  \/ PollSteps
  \/ Callback(SmallSkels, {0}, SmallGloves, {TRUE}, {TRUE})

CbSteps ==
  \/ CbAssemble({0}, SmallGloves, {TRUE}, {TRUE})
  \/ CbLoad
  \/ CbLock
  \/ CbCheck
  \/ CbDelete
  \/ CbStore
  \/ CbUnlock

SpecFair ==
  /\ InitCreated /\ [][NextFair]_vars
  /\ WF_vars(PollSteps)
  /\ WF_vars(CbSteps)

\* bridge_create (succeeding or failing) from process start while the SDK
\* thread delivers frames of at most one skeleton without nodes.
NextRace ==
  \/ Create
  \/ Callback(SmallSkels, {0}, SmallGloves, {TRUE}, {TRUE})

SpecRace == Init /\ [][NextRace]_vars

\* ================================================================ claims
\* The Poll of the last valid poll call has taken from the slot and poll
\* has returned to the caller.
PollDone == con_pc = "idle" /\ claim.inst # NULL
\* The cells of the caller's buffer that hold a record.
WrittenCells == DOMAIN poll.buffer

\* C1 -- latest-wins delivery: every Poll takes either nothing (no publish
\* since the previous Poll) or exactly the snapshot of the most recent
\* publish since the previous Poll; no snapshot is taken by two Polls, and
\* a snapshot overwritten before being taken is never delivered.
C1_LatestWins ==
  /\ \A s \in Snaps : delivered[s] <= 1
  /\ claim.inst # NULL =>
       claim.id = IF claim.fresh THEN claim.latest ELSE NULL
\* Two publishes before a Poll: the Poll took the second, the first was
\* destroyed without ever being delivered.
C1_Witness ==
  /\ claim.id = 2 /\ claim.fresh
  /\ delivered[1] = 0 /\ freed[1] = 1
  /\ delivered[2] = 1

\* C3 -- while Poll reads m_RawSkeleton (lines 204-237) the snapshot is
\* alive (never deleted) and is not the one the callback is assembling.
C3_Reading == con_pc \in {"p_check", "p_loop"} /\ m_RawSkeleton[this] # NULL
\* C3 -- the snapshot Poll is flattening has never been deleted and is not
\* the callback's snapshot under assembly.
C3_FlattenedIsAlive ==
  C3_Reading =>
    /\ freed[m_RawSkeleton[this]] = 0
    /\ ~(cb_pc = "assemble" /\ cb.t = m_RawSkeleton[this])
\* Poll is in its skeleton loop while the callback, its next snapshot
\* assembled, waits for the mutex Poll holds.
C3_Witness ==
  /\ con_pc = "p_loop" /\ m_RawSkeleton[this] # NULL
  /\ cb_pc = "assemble" /\ cb.i = cb.skeletonsCount
  /\ mutex[this] = "poll"

\* C8 as stated -- a valid poll returns -2 only when the slot was empty;
\* whenever it claimed a pending snapshot it returns 0 with the written
\* count.
C8_SuccessWheneverClaimed ==
  PollDone =>
    /\ claim.id = NULL => ret.status = RC_NO_DATA
    /\ claim.id # NULL => ret.status = RC_OK /\ ret.count = poll.count
\* C8 amended -- a valid poll stores the flattener's count (its buffer
\* index when the skeleton loop ends) in *count and returns -2 exactly
\* when that count is 0 and 0 exactly when it is not.  The count is 0
\* when the slot was empty (nothing is written, and no earlier snapshot is
\* retained: it was deleted), and also when the claimed snapshot has no
\* skeleton, when the lookups of all its skeletons fail and when its
\* first skeleton does not pass the capacity check; success is returned
\* only for a claimed snapshot, also for one cut short after nodes were
\* counted.
C8_NoDataIffCountZero ==
  PollDone =>
    /\ ret.op = "poll" /\ ret.count = poll.count /\ ret.count = poll.buffer_index
    /\ ret.status = RC_NO_DATA <=> ret.count = 0
    /\ ret.status = RC_OK <=> (claim.id # NULL /\ ret.count # 0)
    /\ claim.id = NULL =>
         /\ ret.count = 0 /\ WrittenCells = {}
         /\ m_RawSkeleton[this] = NULL
    /\ (/\ claim.id # NULL
        /\ \/ Len(snap[claim.id]) = 0
           \/ poll.i = 0
           \/ poll.i = Len(snap[claim.id]) /\ \A x \in 1..Len(poll.lookups) : ~poll.lookups[x])
         => ret.count = 0
    /\ (claim.id # NULL /\ poll.i < Len(snap[claim.id]) /\ ret.count # 0) => ret.status = RC_OK
\* A poll claimed a snapshot with a skeleton in it and returned -2.
C8_Witness ==
  /\ PollDone /\ claim.id # NULL
  /\ Len(snap[claim.id]) > 0
  /\ ret.status = RC_NO_DATA

\* C9 -- idempotent empty poll: a valid poll with no publish since the
\* previous Poll returns -2 with count 0 and writes no record (neither a
\* poll before any publish nor a repeated poll returns data).
C9_EmptyPollIdempotent ==
  (PollDone /\ ~claim.fresh) =>
    /\ ret.status = RC_NO_DATA
    /\ ret.count = 0
    /\ WrittenCells = {}
\* A snapshot with a node in it was delivered by an earlier poll, and a
\* later poll with no publish in between (it destroyed that snapshot)
\* returned -2.
C9_Witness ==
  /\ PollDone /\ ~claim.fresh /\ ret.status = RC_NO_DATA
  /\ \E s \in 1..nSnap :
       /\ delivered[s] = 1 /\ freed[s] = 1
       /\ Len(snap[s]) > 0 /\ snap[s][1].nodesCount > 0

\* C10 -- the step by which poll answers a call with a null buffer or a
\* null count pointer (on an existing instance) returns -3, writes no
\* count, and leaves the slot, the retained snapshot, the mutex, the heap
\* and the delivery history as they were.
C10_InvalidStep ==
  /\ con_pc = "p_entry" /\ con_pc' # "p_entry"
  /\ s_Instance # NULL
  /\ poll.bufNull \/ poll.cntNull
\* C10 -- every step that returns from an invalid-argument poll is a
\* C10_InvalidStep: status -3 and no mutation of bridge state.
C10_InvalidArgsNoMutation ==
  [][C10_InvalidStep =>
       /\ con_pc' = "idle"
       /\ ret' = [op |-> "poll", status |-> RC_BAD_ARGS, count |-> Unwritten]
       /\ UNCHANGED <<shared, heap, poll, history, registered, ub>>]_vars
\* An invalid call has returned -3 while a snapshot is pending.
C10_Witness ==
  /\ con_pc = "idle" /\ ret.op = "poll" /\ ret.status = RC_BAD_ARGS
  /\ poll.bufNull /\ ~poll.cntNull
  /\ m_NextRawSkeleton[s_Instance] # NULL

\* C2 as stated -- no snapshot is deleted twice, and once the life of the
\* bridge instance has ended (its destructor has run and no call or
\* callback is in progress) every snapshot allocated has been deleted
\* exactly once.
C2_LifeEnded ==
  /\ nInst > 0 /\ alive = {} /\ s_Instance = NULL
  /\ con_pc = "idle" /\ cb_pc = "idle"
\* C2 -- once the instance's life has ended, every allocated snapshot has
\* been deleted exactly once (no leak, no double free).
C2_DestroyedExactlyOnce ==
  /\ \A s \in 1..nSnap : freed[s] <= 1
  /\ C2_LifeEnded => \A s \in 1..nSnap : freed[s] = 1

\* ---------------------------------------------------------- flattening
\* The snapshot the last Poll took.
Frame == snap[claim.id]
\* Node counts summed as integers (not in uint32_t) over the first m
\* skeletons of f whose lookup lk[x] succeeded.  Meaningful when NoneHuge.
RECURSIVE OkNodes(_, _, _)
OkNodes(f, lk, m) ==
  IF m = 0 THEN 0
  ELSE OkNodes(f, lk, m - 1) + (IF lk[m] THEN f[m].nodesCount ELSE 0)
\* The same sum as Poll computes it, in uint32_t.
RECURSIVE OkNodes32(_, _, _)
OkNodes32(f, lk, m) ==
  IF m = 0 THEN 0
  ELSE Add32(OkNodes32(f, lk, m - 1), IF lk[m] THEN f[m].nodesCount ELSE 0)
AllOk(f) == [x \in 1..Len(f) |-> TRUE]
\* None of the first m skeletons counted by lk has 2^31 nodes or more.
NoneHuge(f, lk, m) == \A x \in 1..m : lk[x] => f[x].nodesCount >= 0
\* The nodes of the first m skeletons counted by lk number at most size (a
\* capacity below 2^31), as integers.
NodesFit(f, lk, m, size) == NoneHuge(f, lk, m) /\ OkNodes(f, lk, m) <= size
\* Skeleton x of the frame fits behind the nodes of the skeletons before it
\* that lk counts: their sum, as integers, is at most size.
SkeletonFits(f, lk, x, size) ==
  NodesFit(f, [y \in 1..x |-> IF y = x THEN TRUE ELSE lk[y]], x, size)
TotalNodes(f) == OkNodes(f, AllOk(f), Len(f))
\* The records of skeleton sk, node by node.
RecordsOf(sk) ==
  [j \in 1..sk.nodesCount |->
     [glove_id |-> sk.gloveId, node_id |-> 50 + (j - 1), side |-> sk.gloveId,
      position |-> NodeAt(sk.nodes, j - 1).position,
      orientation |-> NodeAt(sk.nodes, j - 1).rotation]]
\* The records of the first m skeletons of f whose lookup succeeded, in
\* skeleton-then-node order.
RECURSIVE OkRecords(_, _, _)
OkRecords(f, lk, m) ==
  IF m = 0 THEN << >>
  ELSE OkRecords(f, lk, m - 1) \o (IF lk[m] THEN RecordsOf(f[m]) ELSE << >>)
\* The caller's buffer holds exactly the records recs, from cell 0 on, and
\* no other cell has been written.
BufferIs(recs) ==
  /\ Len(recs) <= poll.buffer_size
  /\ DOMAIN poll.buffer = 0..(Len(recs) - 1)
  /\ \A k \in DOMAIN poll.buffer : poll.buffer[k] = recs[k + 1]
\* The process has stopped inside the body of Poll's skeleton loop, past the
\* capacity check of line 217 for skeleton poll.i + 1 of the frame (a stack
\* overflow at line 223 or a faulting write outside the buffer at line 232).
StoppedInLoop == con_pc = "crashed" /\ claim.id # NULL

\* C4 as stated -- Poll never writes a record at an index >= buffer_size,
\* and the count it reports is <= buffer_size.
C4_CapacityBound ==
  /\ ~poll.oob
  /\ PollDone => ~Below(poll.buffer_size, ret.count)

\* C5 -- the nodes of the claimed snapshot fit the capacity and every
\* lookup (so far) has succeeded.
C5_Pre ==
  /\ claim.id # NULL
  /\ NodesFit(Frame, AllOk(Frame), Len(Frame), poll.buffer_size)
  /\ \A x \in 1..Len(poll.lookups) : poll.lookups[x]
C5_Case == PollDone /\ C5_Pre
\* C5 as stated -- when the nodes of the claimed snapshot fit the capacity
\* and every lookup succeeds, Poll processes every skeleton (it is not cut
\* short), count is the total node count and cell k holds the record of
\* the k-th node in skeleton-then-node order (no other cell is written).
C5_FlattenComplete ==
  /\ C5_Pre => ~StoppedInLoop
  /\ C5_Case =>
       /\ Len(Frame) > 0 => Len(poll.lookups) = Len(Frame)
       /\ ret.count = TotalNodes(Frame)
       /\ BufferIs(OkRecords(Frame, AllOk(Frame), Len(Frame)))
\* C5 -- the same for the polls that return: then all of the claim holds.
C5_CompleteWhenReturned ==
  C5_Case =>
    /\ Len(Frame) > 0 => Len(poll.lookups) = Len(Frame)
    /\ ret.count = TotalNodes(Frame)
    /\ BufferIs(OkRecords(Frame, AllOk(Frame), Len(Frame)))
\* Two skeletons with nodes that fill the buffer exactly, all written.
C5_Witness ==
  /\ C5_Case
  /\ Len(Frame) = 2 /\ Frame[1].nodesCount > 0 /\ Frame[2].nodesCount > 0
  /\ TotalNodes(Frame) = poll.buffer_size
  /\ ret.count = poll.buffer_size

\* C6 as stated -- Poll stops at the first skeleton that does not fit the
\* remaining capacity and only there: every skeleton it took past the
\* capacity check fitted, the one it stopped at did not, nothing of that
\* skeleton or of a later one is in the buffer, and count is the number of
\* records written before.
C6_WholeSkeletonTruncation ==
  /\ StoppedInLoop =>
       SkeletonFits(Frame, poll.lookups, poll.i + 1, poll.buffer_size)
  /\ (PollDone /\ claim.id # NULL) =>
       LET m == Len(poll.lookups)
       IN /\ \A x \in 1..m : SkeletonFits(Frame, poll.lookups, x, poll.buffer_size)
          /\ m < Len(Frame) =>
               ~SkeletonFits(Frame, poll.lookups, m + 1, poll.buffer_size)
          /\ ret.count = OkNodes(Frame, poll.lookups, m)
          /\ BufferIs(OkRecords(Frame, poll.lookups, m))

\* C7: after every iteration of the skeleton loop, buffer_index counts the
\* nodes of the skeletons whose lookup succeeded (a failed lookup does not
\* advance it) and the loop index has moved past each processed skeleton.
C7_IndexInvariant ==
  (claim.id # NULL /\ con_pc \in {"p_loop", "p_finish", "p_ret", "idle"}) =>
    /\ poll.i = Len(poll.lookups)
    /\ poll.buffer_index = OkNodes32(Frame, poll.lookups, Len(poll.lookups))
C7_Case ==
  /\ PollDone /\ claim.id # NULL
  /\ NodesFit(Frame, AllOk(Frame), Len(Frame), poll.buffer_size)
  /\ \E x \in 1..Len(poll.lookups) : ~poll.lookups[x]
\* A lookup has failed during the Poll of a claimed snapshot whose nodes
\* fit the capacity.
C7_Pre ==
  /\ claim.id # NULL
  /\ NodesFit(Frame, AllOk(Frame), Len(Frame), poll.buffer_size)
  /\ \E x \in 1..Len(poll.lookups) : ~poll.lookups[x]
\* C7 as stated -- ... Poll continues with the following skeletons (it does
\* not stop at one of them), and a snapshot of one failing and one
\* succeeding skeleton that fits yields exactly the succeeding skeleton's
\* records and count > 0.
C7_SkipYieldsPositiveCount ==
  /\ C7_IndexInvariant
  /\ C7_Pre => ~StoppedInLoop
  /\ (C7_Case /\ Len(Frame) = 2 /\ \E x \in 1..Len(poll.lookups) : poll.lookups[x]) =>
       /\ BufferIs(OkRecords(Frame, poll.lookups, Len(Frame)))
       /\ ret.count > 0
\* C7 -- for the polls that return: a failed lookup writes none of its
\* skeleton's nodes, does not advance the buffer index, and Poll goes on
\* with the following skeletons; a snapshot that fits yields exactly the
\* records of the skeletons whose lookup succeeded, and count is their
\* node count (for
\* one failing and one succeeding skeleton: the succeeding skeleton's node
\* count, which is 0 when that skeleton has no node).
C7_SkipIsolated ==
  /\ C7_IndexInvariant
  /\ C7_Case =>
       /\ Len(poll.lookups) = Len(Frame)
       /\ ret.count = OkNodes(Frame, poll.lookups, Len(Frame))
       /\ BufferIs(OkRecords(Frame, poll.lookups, Len(Frame)))
\* The first skeleton's lookup failed, the second's succeeded; both have
\* nodes; the buffer holds the second skeleton's records only.
C7_Witness ==
  /\ C7_Case
  /\ poll.lookups = <<FALSE, TRUE>>
  /\ Frame[1].nodesCount > 0 /\ Frame[2].nodesCount > 0
  /\ ret.count = Frame[2].nodesCount


\* ------------------------------------------------------------ lifecycle
\* C11 as stated -- poll returns -1 exactly when no live bridge instance
\* exists: a poll that leaves at its first check does so with -1 exactly
\* when no instance is alive, and a poll that goes on to the argument check
\* has a live instance; also when bridge_create is called while an earlier
\* instance is alive.
C11_NotInitIffNoInstance ==
  [][(con_pc = "p_entry" /\ con_pc' # "p_entry") =>
       ((con_pc' = "idle" /\ ret'.status = RC_NOT_INIT) <=> (alive = {}))]_vars

\* The initialisation steps before the connect loop.
PreConnectSteps == {"PlatformInit", "InitializeCore", "RegisterCallback",
                    "CoordinateSystem"}
\* The running or last call logged a failure of one of the steps in names.
Failed(names) == \E x \in 1..Len(calls) : calls[x][1] \in names /\ ~calls[x][2]
Attempted(name) == \E x \in 1..Len(calls) : calls[x][1] = name
CreateReturned == con_pc = "idle" /\ ret.op = "create"
\* C12 -- outcome of create: bridge_create returns null exactly when a step
\* before the connect loop failed, and then no connect was attempted and no
\* instance is left (until the next bridge_create poll and shutdown return
\* -1 and a callback that starts allocates and stores nothing); a failed
\* connect attempt is followed by another attempt, never by a failure
\* return; after a successful connect bridge_create returns the handle of
\* the live instance whether or not setting the hand-motion mode succeeded.
C12_CreateOutcome ==
  /\ [](CreateReturned =>
          /\ (ret.status = NULL) <=> Failed(PreConnectSteps)
          /\ ret.status = NULL =>
               /\ ~Attempted("Connect") /\ ~Attempted("HandMotion")
               /\ s_Instance = NULL /\ alive = {}
          /\ ret.status # NULL =>
               /\ calls[Len(calls) - 1] = <<"Connect", TRUE>>
               /\ calls[Len(calls)][1] = "HandMotion"
               /\ s_Instance = ret.status /\ ret.status \in alive)
  /\ []((con_pc = "idle" /\ ret.op \in {"poll", "shutdown"} /\ s_Instance = NULL)
          => ret.status = RC_NOT_INIT)
  /\ [][(con_pc = "c_connect" => con_pc' \in {"c_connect", "c_motion"})
        /\ (con_pc \in {"c_motion", "c_return"} =>
              con_pc' \in {"c_motion", "c_return", "idle"})
        /\ ((s_Instance = NULL /\ cb_pc = "idle") =>
              (cb_pc' = "idle" /\ nSnap' = nSnap
               /\ m_NextRawSkeleton' = m_NextRawSkeleton))]_vars
\* bridge_create returned a handle after a failed connect attempt, a
\* successful one and a failed hand-motion call.
C12_Witness ==
  /\ CreateReturned /\ ret.status # NULL
  /\ \E x \in 1..Len(calls) : calls[x] = <<"Connect", FALSE>>
  /\ calls[Len(calls)] = <<"HandMotion", FALSE>>

\* A step of shutdown(): the call, the source shutdown, the platform
\* teardown.
C13_ShutdownStep ==
  \/ con_pc = "idle" /\ con_pc' = "s_sdk"
  \/ con_pc = "idle" /\ con_pc' = "idle" /\ ret'.op = "shutdown" /\ ret' # ret
  \/ con_pc \in {"s_sdk", "s_platform"} /\ con_pc' # con_pc
\* C13 -- shutdown protocol: without an instance shutdown returns -1 and
\* calls neither the source nor the platform; with an instance it calls the
\* source shutdown first and the platform teardown only after the source
\* shutdown succeeded, and returns 0 exactly when both succeeded, else -1;
\* no step of shutdown changes the instance, the slot, the retained
\* snapshot, the mutex or the heap, or is undefined behaviour, however
\* often shutdown is called.
C13_ShutdownProtocol ==
  /\ []((con_pc = "idle" /\ ret.op = "shutdown") =>
          IF s_Instance = NULL
          THEN calls = << >> /\ ret.status = RC_NOT_INIT
          ELSE /\ calls \in {<< <<"CoreShutDown", FALSE>> >>,
                             << <<"CoreShutDown", TRUE>>, <<"PlatformShutdown", FALSE>> >>,
                             << <<"CoreShutDown", TRUE>>, <<"PlatformShutdown", TRUE>> >>}
               /\ (ret.status = RC_OK) <=> ~Failed({"CoreShutDown", "PlatformShutdown"})
               /\ ret.status \in {RC_OK, RC_NOT_INIT})
  /\ [](con_pc = "s_platform" => calls = << <<"CoreShutDown", TRUE>> >>)
  /\ [][C13_ShutdownStep => UNCHANGED <<shared, heap, history, registered, ub>>]_vars
\* A second shutdown, after one that returned 0, has passed the source
\* shutdown while a snapshot is pending and another is retained.
C13_Witness ==
  /\ con_pc = "s_platform" /\ ret.op = "shutdown" /\ ret.status = RC_OK
  /\ m_NextRawSkeleton[this] # NULL /\ m_RawSkeleton[this] # NULL

\* ------------------------------------------------------ lock discipline
\* The positions at which each thread is between lock() and unlock().
PollSection == {"p_delete", "p_take", "p_clear", "p_check", "p_loop", "p_finish"}
CbSection == {"check", "delete", "store", "unlock"}
\* The callback has loaded s_Instance for line 337 and calls lock().
CbAtLock == cb_pc = "assemble" /\ AssembledAll /\ cb.inst # NULL
\* Poll and the callback's publish section are never both between lock()
\* and unlock(); the mutex is held by Poll exactly while Poll is between
\* its lock() and the unlock() of whichever exit it takes, by the callback
\* exactly during its publish section, and is free otherwise.
C14_Exclusion ==
  /\ ~(con_pc \in PollSection /\ cb_pc \in CbSection)
  /\ (mutex[1] = "poll") <=> (con_pc \in PollSection)
  /\ (mutex[1] = "cb") <=> (cb_pc \in CbSection)
  /\ ub = {}
\* C14 as stated -- lock discipline: ... and every started Poll returns and
\* every started callback completes its publish.
C14_EveryOperationCompletes ==
  /\ []C14_Exclusion
  /\ (con_pc = "p_lock") ~> (con_pc = "p_ret")
  /\ (cb_pc = "assemble") ~> (cb_pc = "idle")
\* C14 amended -- lock discipline: ... and there is no deadlock: a mutex
\* that is held is released again, a thread waits at lock() only while
\* the other one is inside its section, and of a Poll and a publish that
\* wait for the mutex together one completes.  (Which one is up to
\* lock(): a particular waiter may be passed over every time.)
C14_LockDiscipline ==
  /\ []C14_Exclusion
  /\ (mutex[1] # "free") ~> (mutex[1] = "free")
  /\ []((con_pc = "p_lock" \/ CbAtLock) =>
          (mutex[1] = "free" \/ con_pc \in PollSection \/ cb_pc \in CbSection))
  /\ (con_pc = "p_lock" /\ CbAtLock) ~> (con_pc = "p_ret" \/ cb_pc = "idle")
\* Poll waits for the mutex while the callback is inside its publish
\* section, after an earlier Poll left by the early return.
C14_Witness ==
  /\ con_pc = "p_lock" /\ cb_pc = "store" /\ mutex[1] = "cb"
  /\ ret.op = "poll" /\ ret.status = RC_NO_DATA /\ claim = NoClaim

\* ------------------------------------------------------------- assembly
\* The snapshots held in a pending slot.
Pending == {m_NextRawSkeleton[b] : b \in alive} \ {NULL}
\* Skeleton sk at index x of a frame is one whose info fetch and node-data
\* fetch both succeeded.
C15_Assembled(sk, x) ==
  \E g \in SmallGloves, n \in SmallCounts : sk = AssembleSkeleton(x - 1, TRUE, TRUE, g, n)
\* C15 as stated -- a skeleton whose info fetch or node-data fetch failed
\* is not part of the published snapshot: every skeleton of a published
\* snapshot is a successfully assembled one.
C15_OnlyAssembledPublished ==
  \A s \in Pending : \A x \in 1..Len(snap[s]) : C15_Assembled(snap[s][x], x)

\* C16 -- the producer's critical section is minimal: the callback holds
\* the mutex only after the assembly loop has run to its end (every source
\* query of the callback is done); a step it takes while holding the mutex
\* is the test, the delete of the old pending snapshot, the store or the
\* unlock, and changes no snapshot's contents and allocates nothing; the
\* contents of a snapshot are changed only by the callback that is still
\* assembling it, never after it has been stored.
C16_MinimalCriticalSection ==
  /\ [](cb_pc \in CbSection =>
          /\ cb.i = cb.skeletonsCount
          /\ Len(snap[cb.t]) = cb.skeletonsCount
          /\ mutex[s_Instance] = "cb")
  /\ [][/\ cb_pc \in CbSection =>
             /\ snap' = snap /\ nSnap' = nSnap
             /\ cb' = NoCb \/ [cb' EXCEPT !.inst = cb.inst] = cb
             /\ cb_pc' \in CbSection \cup {"idle"}
        /\ \A s \in 1..nSnap :
             snap'[s] # snap[s] => (cb_pc = "assemble" /\ s = cb.t /\ cb'.i = cb.i + 1)
       ]_vars
\* The callback holds the mutex and is about to replace a pending
\* snapshot by a fully assembled snapshot of one skeleton with a node.
C16_Witness ==
  /\ cb_pc = "delete" /\ m_NextRawSkeleton[s_Instance] # NULL
  /\ cb.skeletonsCount = 1 /\ snap[cb.t][1].nodesCount = 1
  /\ m_RawSkeleton[s_Instance] # NULL

\* C17 -- status follows count: a poll on an existing instance with both
\* pointers non-null stores Poll's count in *count and returns 0 exactly
\* when that count is > 0 and -2 exactly when it is 0; an empty slot, a
\* claimed snapshot without skeletons, a snapshot whose lookups all fail
\* and a snapshot whose first skeleton does not pass the capacity check all
\* give -2 with count 0.
C17_StatusFollowsCount ==
  PollDone =>
    /\ ret.op = "poll" /\ ret.count = poll.count
    /\ (ret.status = RC_OK) <=> (ret.count # 0)
    /\ (ret.status = RC_NO_DATA) <=> (ret.count = 0)
    /\ ret.status \in {RC_OK, RC_NO_DATA}
    /\ (\/ claim.id = NULL
        \/ Len(Frame) = 0
        \/ poll.i = Len(Frame) /\ \A x \in 1..Len(poll.lookups) : ~poll.lookups[x]
        \/ Overflows(0, Frame[1].nodesCount, poll.buffer_size))
         => (ret.status = RC_NO_DATA /\ ret.count = 0)
\* A poll claimed a snapshot whose first skeleton has more nodes than the
\* buffer has cells, and returned -2 with count 0.
C17_Witness ==
  /\ PollDone /\ claim.id # NULL /\ Len(Frame) = 2
  /\ Frame[1].nodesCount = 3 /\ poll.buffer_size = 2 /\ Frame[2].nodesCount = 1
  /\ ret.status = RC_NO_DATA /\ ret.count = 0 /\ poll.i = 0

\* ------------------------------------------------------------ ownership
\* Snapshots allocated and not deleted.
Live == {s \in 1..nSnap : freed[s] = 0}
LiveOrNull(p) == p = NULL \/ p \in Live
\* C18 as stated -- in every reachable state the pending and the retained
\* pointer never refer to the same snapshot, each is null or refers to a
\* live snapshot, and at most three snapshots are live.
C18_NeverAliased ==
  /\ m_NextRawSkeleton[1] # NULL => m_NextRawSkeleton[1] # m_RawSkeleton[1]
  /\ LiveOrNull(m_NextRawSkeleton[1])
  /\ LiveOrNull(m_RawSkeleton[1])
  /\ Cardinality(Live) <= 3
\* C18 amended -- every live snapshot is the one under assembly, the
\* pending one or the retained one (so at most three are live) and no
\* snapshot is deleted twice; the two pointers refer to different
\* snapshots except between lines 198 and 199 of Poll, the retained
\* pointer is null or live except between lines 197 and 198 of Poll, the
\* pending pointer is null or live except between lines 339 and 340 of the
\* callback; in particular all of it holds whenever the mutex is free.
C18_OwnershipOutsideSwap ==
  /\ Live \subseteq ({cb.t, m_NextRawSkeleton[1], m_RawSkeleton[1]} \ {NULL})
  /\ Cardinality(Live) <= 3
  /\ \A s \in Snaps : freed[s] <= 1
  /\ con_pc # "p_clear" =>
       (m_NextRawSkeleton[1] # NULL => m_NextRawSkeleton[1] # m_RawSkeleton[1])
  /\ con_pc # "p_take" => LiveOrNull(m_RawSkeleton[1])
  /\ cb_pc # "store" => LiveOrNull(m_NextRawSkeleton[1])
  /\ cb.t # NULL => cb.t \in Live
  /\ cb_pc \in {"assemble", "check", "delete", "store"} =>
       cb.t \notin {m_NextRawSkeleton[1], m_RawSkeleton[1]}
  /\ mutex[1] = "free" => con_pc \notin {"p_clear", "p_take"} /\ cb_pc # "store"
\* Three snapshots are live with the mutex free: the third under assembly,
\* one pending, one retained.
C18_Witness ==
  /\ Live = {1, 2, 3} /\ mutex[1] = "free"
  /\ cb_pc = "assemble" /\ cb.t = 3
  /\ m_NextRawSkeleton[1] = 2 /\ m_RawSkeleton[1] = 1

\* C19 as stated -- output frame: a poll writes only buffer entries with
\* index < the count it reports (none outside the buffer) and leaves the
\* entries at index >= count as they were; a poll returning -2 writes no
\* entry; *count is written only by polls returning 0 or -2.
C19_OutputFrame ==
  /\ ~poll.oob
  /\ (con_pc = "idle" /\ ret.op = "poll") =>
       /\ ret.status \in {RC_NOT_INIT, RC_BAD_ARGS} <=> ret.count = Unwritten
       /\ ret.status \in {RC_OK, RC_NO_DATA} =>
            WrittenCells \subseteq 0..(ret.count - 1)
       /\ ret.status = RC_NO_DATA => WrittenCells = {}

\* --------------------------------------------- callback and destruction
\* C20 as stated -- a callback that starts while no instance exists
\* allocates and stores nothing, and in every interleaving of a callback
\* with the delete of bridge_create's failure path the callback neither
\* locks the mutex nor writes the pending slot of an instance that has
\* already been destroyed.
C20_NeverUsesDestroyed ==
  /\ [](ub \cap {"lock_destroyed", "store_destroyed"} = {})
  /\ [][(cb_pc = "idle" /\ s_Instance = NULL) =>
          (cb_pc' = "idle" /\ nSnap' = nSnap
           /\ m_NextRawSkeleton' = m_NextRawSkeleton)]_vars
=============================================================================
